---- MODULE Spec2Model ----
(***************************************************************************)
(* indian-stocks-mcp (server.py): the tool catalog and the request         *)
(* executor _make_api_request, as a state machine.                         *)
(*                                                                         *)
(* State: the process environment (the two API-key variables), the number  *)
(* of tool invocations made, the number of outbound requests.get calls,    *)
(* and a record of the last invocation: what was called, what the          *)
(* environment did to it (the network's answer, which diagnostic writes    *)
(* failed) and what came back (an envelope, or an exception that left      *)
(* _make_api_request).                                                     *)
(*                                                                         *)
(* Text (response bodies, details) is a sequence of one-character strings, *)
(* so that slicing (text[:500]) and JSON parsing are computed.             *)
(***************************************************************************)
EXTENDS Integers, Sequences, FiniteSets, TLC

VARIABLES environ, calls, netCalls, last

vars == <<environ, calls, netCalls, last>>

(***************************************************************************)
(* Bounds of the model.                                                    *)
(***************************************************************************)
\* tool invocations in one behaviour
MaxCalls == 2
\* length of the long response body (longer than the details limit)
LongLen == 501

(***************************************************************************)
(* Program constants.                                                      *)
(***************************************************************************)
\* response.text[:500]
DetailsLimit == 500
\* the prints one invocation can reach: the pre-request line, the non-JSON line
\* and the line of the last handler
MaxWrites == 3
\* requests.get(..., timeout=15)
RequestTimeout == 15
\* raise_for_status raises for 400 <= status_code < 600
HttpErrorFrom == 400
HttpErrorBelow == 600

API_BASE_URL == "https://stock.indianapi.in"
API_KEY_ENV_VAR == "INDIANAPI_KEY"
ALT_KEY_ENV_VAR == "FINANCE_API_KEY"

(***************************************************************************)
(* Python values.  None among strings (environment values, tool arguments) *)
(* is the sentinel None; structured values (JSON, details, params) are     *)
(* tagged with their Python type.                                          *)
(***************************************************************************)
None == "None"

Truthy(v) == v # None /\ v # ""

PyNone == [t |-> "NoneType"]
PyBool(b) == [t |-> "bool", bool |-> b]
PyInt(n) == [t |-> "int", int |-> n]
PyStr(s) == [t |-> "str", str |-> s]
PyList(xs) == [t |-> "list", list |-> xs]
PyDict(f) == [t |-> "dict", dict |-> f]

(***************************************************************************)
(* response.json(): a JSON parser over the text.  The grammar covered is   *)
(* null, true, false, integers, strings without escapes, arrays and        *)
(* objects, with blanks between tokens; every body the model uses lies in  *)
(* that grammar or is rejected by the full grammar as well.                *)
(***************************************************************************)
Digits == {"0", "1", "2", "3", "4", "5", "6", "7", "8", "9"}

DigitVal(c) ==
    CASE c = "0" -> 0 [] c = "1" -> 1 [] c = "2" -> 2 [] c = "3" -> 3
      [] c = "4" -> 4 [] c = "5" -> 5 [] c = "6" -> 6 [] c = "7" -> 7
      [] c = "8" -> 8 [] c = "9" -> 9

Whitespace == {" "}

At(s, i) == IF i >= 1 /\ i <= Len(s) THEN s[i] ELSE ""

HasPrefix(s, i, w) == i + Len(w) - 1 <= Len(s) /\ SubSeq(s, i, i + Len(w) - 1) = w

RECURSIVE SkipWs(_, _)
SkipWs(s, i) == IF At(s, i) \in Whitespace THEN SkipWs(s, i + 1) ELSE i

ParseFail == [ok |-> FALSE, val |-> PyNone, next |-> 0]

ParseOk(v, n) == [ok |-> TRUE, val |-> v, next |-> n]

RECURSIVE ScanDigits(_, _, _)
ScanDigits(s, i, acc) ==
    IF At(s, i) \in Digits
    THEN ScanDigits(s, i + 1, acc * 10 + DigitVal(At(s, i)))
    ELSE [val |-> acc, next |-> i]

ParseNumber(s, i) ==
    IF At(s, i) = "0"
    THEN ParseOk(PyInt(0), i + 1)
    ELSE LET r == ScanDigits(s, i, 0) IN ParseOk(PyInt(r.val), r.next)

RECURSIVE ScanString(_, _)
ScanString(s, i) ==
    IF i > Len(s) THEN 0
    ELSE IF s[i] = "\"" THEN i
    ELSE IF s[i] = "\\" THEN 0
    ELSE ScanString(s, i + 1)

ParseString(s, i) ==
    LET j == ScanString(s, i + 1)
    IN  IF j = 0 THEN ParseFail ELSE ParseOk(PyStr(SubSeq(s, i + 1, j - 1)), j + 1)

RECURSIVE ParseValue(_, _)
RECURSIVE ParseElements(_, _, _)
RECURSIVE ParseMembers(_, _, _)

ParseValue(s, i) ==
    LET c == At(s, i)
    IN  IF HasPrefix(s, i, <<"n", "u", "l", "l">>) THEN ParseOk(PyNone, i + 4)
        ELSE IF HasPrefix(s, i, <<"t", "r", "u", "e">>) THEN ParseOk(PyBool(TRUE), i + 4)
        ELSE IF HasPrefix(s, i, <<"f", "a", "l", "s", "e">>) THEN ParseOk(PyBool(FALSE), i + 5)
        ELSE IF c \in Digits THEN ParseNumber(s, i)
        ELSE IF c = "\"" THEN ParseString(s, i)
        ELSE IF c = "["
             THEN LET j == SkipWs(s, i + 1)
                  IN  IF At(s, j) = "]" THEN ParseOk(PyList(<<>>), j + 1)
                      ELSE ParseElements(s, j, <<>>)
        ELSE IF c = "{"
             THEN LET j == SkipWs(s, i + 1)
                  IN  IF At(s, j) = "}" THEN ParseOk(PyDict(<<>>), j + 1)
                      ELSE ParseMembers(s, j, <<>>)
        ELSE ParseFail

ParseElements(s, i, acc) ==
    LET r == ParseValue(s, i)
    IN  IF ~r.ok THEN ParseFail
        ELSE LET j == SkipWs(s, r.next)
                 xs == Append(acc, r.val)
             IN  IF At(s, j) = "]" THEN ParseOk(PyList(xs), j + 1)
                 ELSE IF At(s, j) = "," THEN ParseElements(s, SkipWs(s, j + 1), xs)
                 ELSE ParseFail

ParseMembers(s, i, acc) ==
    IF At(s, i) # "\"" THEN ParseFail
    ELSE LET k == ParseString(s, i)
         IN  IF ~k.ok THEN ParseFail
             ELSE LET c == SkipWs(s, k.next)
                  IN  IF At(s, c) # ":" THEN ParseFail
                      ELSE LET r == ParseValue(s, SkipWs(s, c + 1))
                           IN  IF ~r.ok THEN ParseFail
                               ELSE LET j == SkipWs(s, r.next)
                                        d == (k.val.str :> r.val) @@ acc
                                    IN  IF At(s, j) = "}" THEN ParseOk(PyDict(d), j + 1)
                                        ELSE IF At(s, j) = ","
                                             THEN ParseMembers(s, SkipWs(s, j + 1), d)
                                        ELSE ParseFail

\* response.json(): the parsed value, or JSONDecodeError (ok = FALSE), the
\* json.JSONDecodeError that the handlers of lines 39 and 51 catch
response_json(text) ==
    LET r == ParseValue(text, SkipWs(text, 1))
    IN  IF r.ok /\ SkipWs(text, r.next) = Len(text) + 1
        THEN [ok |-> TRUE, val |-> r.val]
        ELSE [ok |-> FALSE, val |-> PyNone]

\* text[:n]
Prefix(text, n) == SubSeq(text, 1, IF Len(text) < n THEN Len(text) ELSE n)

(***************************************************************************)
(* The process environment and the module's import-time configuration.    *)
(***************************************************************************)
EnvVars == {API_KEY_ENV_VAR, ALT_KEY_ENV_VAR}

\* values a key variable is given; environ[name] = None: the variable is unset
KeyValues == {"", "k1", "k2"}

\* os.getenv(name)
getenv(env, name) == env[name]

\* a or b
PyOr(a, b) == IF Truthy(a) THEN a ELSE b

\* api_key = os.getenv("INDIANAPI_KEY") or os.getenv("FINANCE_API_KEY")
\* if api_key: os.environ[API_KEY_ENV_VAR] = api_key
ImportModule(env) ==
    LET api_key == PyOr(getenv(env, API_KEY_ENV_VAR), getenv(env, ALT_KEY_ENV_VAR))
    IN  IF Truthy(api_key) THEN [env EXCEPT ![API_KEY_ENV_VAR] = api_key] ELSE env

(***************************************************************************)
(* What the world does to one invocation: the answer of requests.get, and  *)
(* for each diagnostic write (print) of the invocation whether it succeeds.*)
(***************************************************************************)
Chars(c, n) == [i \in 1..n |-> c]

BodyNull == <<"n", "u", "l", "l">>
BodyScalar == <<"7">>
BodyArray == <<"[", "7", ",", " ", "\"", "a", "\"", "]">>
BodyObject ==
    <<"{", "\"", "d", "e", "t", "a", "i", "l", "\"", ":", "\"", "n", "o", "t", " ",
      "f", "o", "u", "n", "d", "\"", "}">>
BodyNotJson == <<"n", "o", "t", "-", "j", "s", "o", "n">>
BodyLong == Chars("x", LongLen)

Bodies == {BodyNull, BodyScalar, BodyArray, BodyObject, BodyNotJson, BodyLong}

\* 300 stands for the 3xx responses requests hands back (it follows only a
\* 301, 302, 303, 307 or 308 that carries a Location)
Statuses == {200, 201, 300, 404, 500}

Response(status, text) == [kind |-> "response", status_code |-> status, text |-> text]

\* requests.get raised a RequestException (connection, DNS, timeout)
TransportFailure == [kind |-> "transport", error |-> "Read timed out."]

\* requests.get raised something that is no RequestException
UnexpectedFailure == [kind |-> "unexpected", error |-> "unexpected"]

Nets == {Response(st, b) : st \in Statuses, b \in Bodies} \cup {TransportFailure, UnexpectedFailure}

SampleNets == {Response(200, BodyObject), Response(404, BodyNotJson), TransportFailure}

\* sink[i]: the i-th print of the invocation succeeds
Sinks == [1..MaxWrites -> BOOLEAN]

HealthySink == [i \in 1..MaxWrites |-> TRUE]

BrokenSink == [i \in 1..MaxWrites |-> FALSE]

(***************************************************************************)
(* _make_api_request.  The value is the outcome of the call: ret (the      *)
(* envelope returned, or Raised(e) when an exception leaves the function), *)
(* whether requests.get was called and with what, and how many prints were *)
(* attempted.                                                              *)
(***************************************************************************)
Raised(e) == [raised |-> e]

PrintError == "print failed"

Outcome(ret, request, writes) ==
    [ret |-> ret, issued |-> request # PyNone, request |-> request, writes |-> writes]

ConfigurationError ==
    [status |-> "error", error_type |-> "ConfigurationError",
     message |-> "API key '" \o API_KEY_ENV_VAR \o "' is not configured in the environment."]

InvalidResponseFormat(response) ==
    [status |-> "error", error_type |-> "InvalidResponseFormat",
     message |-> "API returned a non-JSON response.",
     details |-> PyStr(Prefix(response.text, DetailsLimit))]

\* str(http_err) of response.raise_for_status()
HttpErrorText(response, url) ==
    ToString(response.status_code) \o " Error for url: " \o url

HttpError(response, url) ==
    LET parsed == response_json(response.text)
        error_details == IF parsed.ok THEN parsed.val
                         ELSE PyStr(Prefix(response.text, DetailsLimit))
    IN  [status |-> "error", error_type |-> "HttpError",
         message |-> HttpErrorText(response, url), details |-> error_details]

RequestError(req_err) ==
    [status |-> "error", error_type |-> "RequestError", message |-> req_err]

ServerError(e) ==
    [status |-> "error", error_type |-> "ServerError",
     message |-> "An unexpected server error occurred: " \o e]

\* a plausible slip: return {"status": "success", "response": data or {}}
SuccessOrEmpty(data) ==
    [status |-> "success",
     response |-> IF data \in {PyNone, PyInt(0), PyBool(FALSE), PyStr(<<>>), PyList(<<>>)}
                  THEN PyDict(<<>>) ELSE data]

Success(data) == [status |-> "success", response |-> data]

\* response.raise_for_status() raises HTTPError
RaisesForStatus(response) ==
    response.status_code >= HttpErrorFrom /\ response.status_code < HttpErrorBelow

\* except Exception as e: print(...); return ServerError.  w is the number of
\* the print in the handler.
ExceptException(e, request, sink, w) ==
    IF sink[w] THEN Outcome(ServerError(e), request, w)
    ELSE Outcome(Raised(PrintError), request, w)

HttpRequest(url, api_key, params) ==
    [url |-> url, params |-> params, timeout |-> RequestTimeout,
     headers |-> [XApiKey |-> api_key, Accept |-> "application/json"]]

make_api_request(env, endpoint, params, net, sink) ==
    LET api_key == getenv(env, API_KEY_ENV_VAR)
        url == API_BASE_URL \o endpoint
        request == HttpRequest(url, api_key, params)
    IN  IF ~Truthy(api_key)
        THEN \* print outside the try block
             IF sink[1] THEN Outcome(ConfigurationError, PyNone, 1)
             ELSE Outcome(Raised(PrintError), PyNone, 1)
        ELSE IF ~sink[1]
        THEN \* the pre-request print raised inside the try block
             ExceptException(PrintError, PyNone, sink, 2)
        ELSE IF net.kind = "transport"
        THEN IF sink[2] THEN Outcome(RequestError(net.error), request, 2)
             ELSE Outcome(Raised(PrintError), request, 2)
        ELSE IF net.kind = "unexpected"
        THEN ExceptException(net.error, request, sink, 2)
        ELSE IF RaisesForStatus(net)
        THEN IF sink[2] THEN Outcome(HttpError(net, url), request, 2)
             ELSE Outcome(Raised(PrintError), request, 2)
        ELSE LET data == response_json(net.text)
             IN  IF data.ok THEN Outcome(Success(data.val), request, 1)
                 ELSE IF sink[2] THEN Outcome(InvalidResponseFormat(net), request, 2)
                 ELSE \* the print in the inner handler raised: the outer handlers see it
                      ExceptException(PrintError, request, sink, 3)

(***************************************************************************)
(* The tool catalog.  Each tool is the thin function of the source: it     *)
(* builds the params mapping from its arguments and names its endpoint.    *)
(***************************************************************************)
ToolRequest(endpoint, params) == [endpoint |-> endpoint, params |-> params]

\* params[key] = value
Entry(key, value) == key :> value

\* if value: params[key] = value
EntryIf(key, value) == IF Truthy(value) THEN key :> value ELSE <<>>

\* params=params or None
OrNone(params) == IF DOMAIN params = {} THEN PyNone ELSE PyDict(params)

get_ipo_data == ToolRequest("/ipo", PyNone)

get_news_data(query, symbol) ==
    ToolRequest("/news", OrNone(EntryIf("q", query) @@ EntryIf("symbol", symbol)))

get_stock_details(name) == ToolRequest("/stock", PyDict(Entry("name", name)))

get_trending_stocks == ToolRequest("/trending", PyNone)

get_financial_statement(stock_name, stats, statement_type, period) ==
    ToolRequest("/statement",
                PyDict(Entry("stock_name", stock_name) @@ Entry("stats", stats)
                       @@ Entry("type", statement_type) @@ Entry("period", period)))

get_commodities_data(commodity_name) ==
    ToolRequest("/commodities", OrNone(EntryIf("name", commodity_name)))

get_mutual_funds_data(category) ==
    ToolRequest("/mutual_funds", OrNone(EntryIf("category", category)))

get_price_shockers_data == ToolRequest("/price_shockers", PyNone)

get_bse_most_active_stocks == ToolRequest("/BSE_most_active", PyNone)

get_nse_most_active_stocks == ToolRequest("/NSE_most_active", PyNone)

get_historical_stock_data(symbol, from_date, to_date, interval) ==
    ToolRequest("/historical_data",
                PyDict(Entry("symbol", symbol) @@ Entry("from", from_date)
                       @@ Entry("to", to_date) @@ Entry("interval", interval)))

search_by_industry(industry_query) ==
    ToolRequest("/industry_search", PyDict(Entry("query", industry_query)))

get_stock_forecasts(symbol) ==
    ToolRequest("/stock_forecasts", PyDict(Entry("symbol", symbol)))

get_historical_stats(stock_name, stats) ==
    ToolRequest("/historical_stats",
                PyDict(Entry("stock_name", stock_name) @@ Entry("stats", stats)))

get_corporate_actions(symbol, action_type) ==
    ToolRequest("/corporate_actions",
                PyDict(Entry("symbol", symbol) @@ EntryIf("type", action_type)))

search_mutual_funds(query, category) ==
    ToolRequest("/mutual_fund_search",
                PyDict(Entry("q", query) @@ EntryIf("category", category)))

get_stock_target_price(symbol) ==
    ToolRequest("/stock_target_price", PyDict(Entry("symbol", symbol)))

get_mutual_fund_details(scheme_code) ==
    ToolRequest("/mutual_funds_details", PyDict(Entry("scheme_code", scheme_code)))

get_recent_announcements(symbol) ==
    ToolRequest("/recent_announcements", OrNone(EntryIf("symbol", symbol)))

\* a plausible slip: the optional exchange is sent without the "if exchange:" test
fetch_52_week_high_low_data_always(range_type, exchange) ==
    ToolRequest("/fetch_52_week_high_low_data",
                PyDict(Entry("type", range_type) @@ Entry("exchange", exchange)))

fetch_52_week_high_low_data(range_type, exchange) ==
    ToolRequest("/fetch_52_week_high_low_data",
                PyDict(Entry("type", range_type) @@ EntryIf("exchange", exchange)))

(***************************************************************************)
(* The signatures: each tool's required parameters, and its optional       *)
(* parameters with their declared defaults.                                *)
(***************************************************************************)
Signature(required, optional) == [required |-> required, optional |-> optional]

Signatures ==
    [get_ipo_data |-> Signature({}, <<>>),
     get_news_data |-> Signature({}, [query |-> None, symbol |-> None]),
     get_stock_details |-> Signature({"name"}, <<>>),
     get_trending_stocks |-> Signature({}, <<>>),
     get_financial_statement |->
         Signature({"stock_name", "stats"}, [statement_type |-> "income", period |-> "annual"]),
     get_commodities_data |-> Signature({}, [commodity_name |-> None]),
     get_mutual_funds_data |-> Signature({}, [category |-> None]),
     get_price_shockers_data |-> Signature({}, <<>>),
     get_bse_most_active_stocks |-> Signature({}, <<>>),
     get_nse_most_active_stocks |-> Signature({}, <<>>),
     get_historical_stock_data |->
         Signature({"symbol", "from_date", "to_date"}, [interval |-> "1d"]),
     search_by_industry |-> Signature({"industry_query"}, <<>>),
     get_stock_forecasts |-> Signature({"symbol"}, <<>>),
     get_historical_stats |-> Signature({"stock_name"}, [stats |-> "volatility"]),
     get_corporate_actions |-> Signature({"symbol"}, [action_type |-> None]),
     search_mutual_funds |-> Signature({"query"}, [category |-> None]),
     get_stock_target_price |-> Signature({"symbol"}, <<>>),
     get_mutual_fund_details |-> Signature({"scheme_code"}, <<>>),
     get_recent_announcements |-> Signature({}, [symbol |-> None]),
     fetch_52_week_high_low_data |-> Signature({}, [range_type |-> "high", exchange |-> None])]

Tools == DOMAIN Signatures

\* the query key under which a tool sends a parameter
QueryKeys ==
    [get_news_data |-> [query |-> "q", symbol |-> "symbol"],
     get_financial_statement |-> [statement_type |-> "type", period |-> "period"],
     get_commodities_data |-> [commodity_name |-> "name"],
     get_mutual_funds_data |-> [category |-> "category"],
     get_historical_stock_data |-> [interval |-> "interval"],
     get_historical_stats |-> [stats |-> "stats"],
     get_corporate_actions |-> [action_type |-> "type"],
     search_mutual_funds |-> [category |-> "category"],
     get_recent_announcements |-> [symbol |-> "symbol"],
     fetch_52_week_high_low_data |-> [range_type |-> "type", exchange |-> "exchange"]]

\* an argument the caller does not pass
Unset == "<unset>"

\* the values a caller passes for a parameter
ArgValues == {"", "v"}

\* the value a parameter is bound to: the argument, or the declared default
Bound(tool, args, p) ==
    IF args[p] # Unset THEN args[p] ELSE Signatures[tool].optional[p]

Dispatch(tool, args) ==
    LET a(p) == Bound(tool, args, p)
    IN  CASE tool = "get_ipo_data" -> get_ipo_data
          [] tool = "get_news_data" -> get_news_data(a("query"), a("symbol"))
          [] tool = "get_stock_details" -> get_stock_details(a("name"))
          [] tool = "get_trending_stocks" -> get_trending_stocks
          [] tool = "get_financial_statement" ->
                 get_financial_statement(a("stock_name"), a("stats"),
                                         a("statement_type"), a("period"))
          [] tool = "get_commodities_data" -> get_commodities_data(a("commodity_name"))
          [] tool = "get_mutual_funds_data" -> get_mutual_funds_data(a("category"))
          [] tool = "get_price_shockers_data" -> get_price_shockers_data
          [] tool = "get_bse_most_active_stocks" -> get_bse_most_active_stocks
          [] tool = "get_nse_most_active_stocks" -> get_nse_most_active_stocks
          [] tool = "get_historical_stock_data" ->
                 get_historical_stock_data(a("symbol"), a("from_date"),
                                           a("to_date"), a("interval"))
          [] tool = "search_by_industry" -> search_by_industry(a("industry_query"))
          [] tool = "get_stock_forecasts" -> get_stock_forecasts(a("symbol"))
          [] tool = "get_historical_stats" -> get_historical_stats(a("stock_name"), a("stats"))
          [] tool = "get_corporate_actions" ->
                 get_corporate_actions(a("symbol"), a("action_type"))
          [] tool = "search_mutual_funds" -> search_mutual_funds(a("query"), a("category"))
          [] tool = "get_stock_target_price" -> get_stock_target_price(a("symbol"))
          [] tool = "get_mutual_fund_details" -> get_mutual_fund_details(a("scheme_code"))
          [] tool = "get_recent_announcements" -> get_recent_announcements(a("symbol"))
          [] tool = "fetch_52_week_high_low_data" ->
                 fetch_52_week_high_low_data(a("range_type"), a("exchange"))

\* the calls a host can make of a tool: every required parameter passed, every
\* optional one passed or left out
CallsOf(tool) ==
    LET sig == Signatures[tool]
        ps == sig.required \cup DOMAIN sig.optional
    IN  {[tool |-> tool, args |-> a] :
            a \in {f \in [ps -> ArgValues \cup {Unset}] :
                      \A p \in sig.required : f[p] = "v"}}

AllCalls == UNION {CallsOf(tool) : tool \in Tools}

SampleCalls == CallsOf("get_ipo_data") \cup CallsOf("get_stock_details")

(***************************************************************************)
(* The state machine.                                                      *)
(***************************************************************************)
NoCall == [tool |-> "none"]

\* the environment the process is started in, before server.py is imported
StartEnvs ==
    {[e \in EnvVars |-> IF e = API_KEY_ENV_VAR THEN a ELSE b] :
        a \in {None, "", "k1"}, b \in {None, "k2"}}

Init ==
    /\ \E env \in StartEnvs : environ = ImportModule(env)
    /\ calls = 0
    /\ netCalls = 0
    /\ last = NoCall

\* one tool invocation, from the host's call to the value handed back
Invoke(call, net, sink) ==
    LET req == Dispatch(call.tool, call.args)
        out == make_api_request(environ, req.endpoint, req.params, net, sink)
    IN  /\ calls < MaxCalls
        /\ calls' = calls + 1
        /\ netCalls' = IF out.issued THEN netCalls + 1 ELSE netCalls
        /\ last' = [tool |-> call.tool, args |-> call.args,
                    endpoint |-> req.endpoint, params |-> req.params,
                    key |-> getenv(environ, API_KEY_ENV_VAR),
                    altKey |-> getenv(environ, ALT_KEY_ENV_VAR), net |-> net,
                    logFailed |-> \E w \in 1..out.writes : ~sink[w],
                    ret |-> out.ret, issued |-> out.issued, request |-> out.request,
                    netBefore |-> netCalls]
        /\ UNCHANGED environ

\* os.environ[name] = value, while the server runs
SetEnv(name, value) ==
    /\ environ[name] # value
    /\ environ' = [environ EXCEPT ![name] = value]
    /\ UNCHANGED <<calls, netCalls, last>>

\* del os.environ[name], while the server runs
UnsetEnv(name) ==
    /\ environ[name] # None
    /\ environ' = [environ EXCEPT ![name] = None]
    /\ UNCHANGED <<calls, netCalls, last>>

InvokeTool ==
    \E call \in CallsOf("get_stock_details"), net \in Nets, sink \in Sinks :
        Invoke(call, net, sink)

Next == InvokeTool

Spec == Init /\ [][Next]_vars

\* the key variables change between invocations
InvokeSample == \E call \in SampleCalls, net \in SampleNets, sink \in Sinks : Invoke(call, net, sink)

SetKey == \E name \in EnvVars, value \in KeyValues : SetEnv(name, value)

UnsetKey == \E name \in EnvVars : UnsetEnv(name)

NextEnv == InvokeSample \/ SetKey \/ UnsetKey

SpecEnv == Init /\ [][NextEnv]_vars

\* every tool, every choice of arguments
InvokeAny ==
    \E call \in AllCalls, sink \in {HealthySink, BrokenSink} :
        Invoke(call, Response(200, BodyObject), sink)

NextCatalog == InvokeAny

SpecCatalog == Init /\ [][NextCatalog]_vars

(***************************************************************************)
(* Vocabulary of the properties.                                           *)
(***************************************************************************)
\* an invocation has been made: last describes it
Called == calls > 0

IsEnvelope(r) == "status" \in DOMAIN r

IsError(r, type) == IsEnvelope(r) /\ r.status = "error" /\ r.error_type = type

IsSuccess(r) == IsEnvelope(r) /\ r.status = "success"

GotResponse == last.issued /\ last.net.kind = "response"

Is2xx(status) == status >= 200 /\ status <= 299

\* the bodies that are valid JSON, with the value each denotes
JsonBodies == {BodyNull, BodyScalar, BodyArray, BodyObject}

JsonValue(body) ==
    CASE body = BodyNull -> PyNone
      [] body = BodyScalar -> PyInt(7)
      [] body = BodyArray -> PyList(<<PyInt(7), PyStr(<<"a">>)>>)
      [] body = BodyObject ->
             PyDict(<<"d", "e", "t", "a", "i", "l">> :>
                        PyStr(<<"n", "o", "t", " ", "f", "o", "u", "n", "d">>))

\* the first 500 characters of a body
First500(body) == IF body = BodyLong THEN Chars("x", DetailsLimit) ELSE body

\* what the same invocation gives when every diagnostic write succeeds
HealthyOutcome ==
    make_api_request([e \in EnvVars |-> IF e = API_KEY_ENV_VAR THEN last.key ELSE last.altKey],
                     last.endpoint, last.params, last.net, HealthySink)

(***************************************************************************)
(* C1.  An invocation made while no API key is configured returns the      *)
(* ConfigurationError envelope and makes no outbound call.                 *)
(***************************************************************************)
C1_NoKeyGivesConfigurationError ==
    Called /\ ~Truthy(last.key) =>
        /\ IsError(last.ret, "ConfigurationError")
        /\ ~last.issued
        /\ netCalls = last.netBefore

(***************************************************************************)
(* C2.  Every invocation ends by returning an envelope: no exception       *)
(* leaves _make_api_request.                                               *)
(***************************************************************************)
C2_AlwaysReturnsEnvelope == Called => IsEnvelope(last.ret)

(***************************************************************************)
(* C3.  A failing diagnostic write changes nothing: the invocation returns *)
(* the envelope, and issues the request, that it does when every write     *)
(* succeeds.                                                               *)
(***************************************************************************)
C3_LogFailureChangesNothing ==
    Called /\ last.logFailed =>
        /\ last.ret = HealthyOutcome.ret
        /\ last.issued = HealthyOutcome.issued

(***************************************************************************)
(* C4.  Every response whose status is not 2xx gives HttpError, and        *)
(* InvalidResponseFormat is given only for a 2xx response whose body is not *)
(* JSON; so no non-2xx response gives success or InvalidResponseFormat.    *)
(* Stated here of the invocations whose diagnostic writes all succeeded.   *)
(***************************************************************************)
C4_Non2xxIsHttpError ==
    Called /\ ~last.logFailed =>
        /\ GotResponse /\ ~Is2xx(last.net.status_code) =>
               /\ IsError(last.ret, "HttpError")
               /\ ~IsSuccess(last.ret)
               /\ ~IsError(last.ret, "InvalidResponseFormat")
        /\ IsError(last.ret, "InvalidResponseFormat") =>
               /\ GotResponse
               /\ Is2xx(last.net.status_code)
               /\ last.net.text \notin JsonBodies

(***************************************************************************)
(* C5.  A response with a success status and a valid JSON body gives       *)
(* exactly {status: "success", response: <the parsed body>}, whatever the  *)
(* shape of the value (object, array, scalar, null).                       *)
(***************************************************************************)
C5_SuccessPassesJsonThrough ==
    Called /\ GotResponse /\ Is2xx(last.net.status_code) /\ last.net.text \in JsonBodies =>
        last.ret = [status |-> "success", response |-> JsonValue(last.net.text)]

C5_Witness ==
    /\ Called /\ GotResponse
    /\ last.net = Response(201, BodyNull)
    /\ last.ret = [status |-> "success", response |-> PyNone]

(***************************************************************************)
(* C6.  As claimed: the params mapping holds no entry for the query key of *)
(* any optional parameter the caller left unset, whether or not the        *)
(* parameter declares a default.                                           *)
(***************************************************************************)
HasEntry(params, key) == params # PyNone /\ key \in DOMAIN params.dict

UnsetOptionals == {p \in DOMAIN Signatures[last.tool].optional : last.args[p] = Unset}

C6_UnsetOptionalOmitted ==
    Called => \A p \in UnsetOptionals : ~HasEntry(last.params, QueryKeys[last.tool][p])

(***************************************************************************)
(* C6, amended.  An optional parameter without a declared default that the *)
(* caller leaves unset has no entry in the params mapping; one with a      *)
(* declared default that the caller leaves unset is sent under its query   *)
(* key with that default, never as an empty string or null.  The request   *)
(* that is issued carries that mapping.                                    *)
(***************************************************************************)
C6_UnsetOptionalOmittedOrDefault ==
    Called =>
        /\ \A p \in UnsetOptionals :
               LET key == QueryKeys[last.tool][p]
                   default == Signatures[last.tool].optional[p]
               IN  IF default = None
                   THEN ~HasEntry(last.params, key)
                   ELSE /\ HasEntry(last.params, key)
                        /\ last.params.dict[key] = default
                        /\ last.params.dict[key] \notin {"", None}
        /\ last.issued => last.request.params = last.params

C6_Witness ==
    /\ Called
    /\ last.tool = "fetch_52_week_high_low_data"
    /\ last.args = [range_type |-> Unset, exchange |-> Unset]
    /\ last.params = PyDict("type" :> "high")
    /\ last.issued

(***************************************************************************)
(* C7.  With a key configured, an invocation issues exactly one outbound   *)
(* GET, whatever its outcome.                                              *)
(***************************************************************************)
C7_OneRequestPerInvocation ==
    Called /\ Truthy(last.key) => last.issued /\ netCalls = last.netBefore + 1

(***************************************************************************)
(* C8.  An invocation depends only on the key configured when it is made,  *)
(* under either recognized variable name: it gives ConfigurationError      *)
(* exactly when none is configured then, and otherwise sends the key that  *)
(* is configured then in X-Api-Key.  Stated here of the invocations whose  *)
(* diagnostic writes all succeeded.                                        *)
(***************************************************************************)
C8_CurrentKeyOfEitherNameIsUsed ==
    Called /\ ~last.logFailed =>
        LET configured == PyOr(last.key, last.altKey)
        IN  /\ IsError(last.ret, "ConfigurationError") <=> ~Truthy(configured)
            /\ Truthy(configured) =>
                   last.issued /\ last.request.headers.XApiKey = configured

(***************************************************************************)
(* C9.  A response with an error status gives an HttpError envelope whose  *)
(* details are the parsed body when the body is JSON, and its first 500    *)
(* characters otherwise.                                                   *)
(***************************************************************************)
C9_HttpErrorDetails ==
    Called /\ GotResponse /\ RaisesForStatus(last.net) =>
        /\ IsError(last.ret, "HttpError")
        /\ last.ret.details = IF last.net.text \in JsonBodies
                              THEN JsonValue(last.net.text)
                              ELSE PyStr(First500(last.net.text))

(***************************************************************************)
(* C10.  A success response whose body is not JSON gives                   *)
(* InvalidResponseFormat with the first 500 characters of the body as      *)
(* details; a transport failure gives RequestError without details.        *)
(***************************************************************************)
C10_InvalidFormatAndRequestError ==
    Called /\ last.issued =>
        /\ last.net.kind = "response" /\ Is2xx(last.net.status_code)
             /\ last.net.text \notin JsonBodies =>
               /\ IsError(last.ret, "InvalidResponseFormat")
               /\ last.ret.details = PyStr(First500(last.net.text))
        /\ last.net.kind = "transport" =>
               /\ IsError(last.ret, "RequestError")
               /\ "details" \notin DOMAIN last.ret
====
